---- MODULE Spec2Model ----
(***************************************************************************)
(* PatternV: byte-signature scanner over a directory of builds.             *)
(* Model of src/PatternV.cpp: the pattern compiler (parseBytePattern), the  *)
(* byte matcher (searchAllPatternOffsets), the section locator              *)
(* (getTextSection), the build identifier (extractBuildNumber), and the     *)
(* scan orchestrator (scanFile, scanFileLimited, scanDirectory, main).      *)
(*                                                                         *)
(* Strings are sequences of one-character strings. 32-bit and 64-bit       *)
(* unsigned values are pairs <<hi, lo>> standing for hi * 65536 + lo, so   *)
(* that uint32_t arithmetic keeps its width (hi is reduced modulo 65536)   *)
(* while size_t arithmetic is exact.                                       *)
(***************************************************************************)
EXTENDS Integers, Sequences, FiniteSets, TLC

VARIABLES
    buffer,       \* getTextSection: the file bytes handed to the locator
    section,      \* getTextSection: its outcome, "pending" before the call
    data,         \* searchAllPatternOffsets: the section bytes
    pat,          \* searchAllPatternOffsets: the compiled pattern
    matches,      \* searchAllPatternOffsets: its result
    input,        \* parseBytePattern: the pattern text
    parsed,       \* parseBytePattern: its result
    filename,     \* extractBuildNumber: the file name
    build,        \* scanFile line 212: the identifier
    fpc,          \* "call" before and "return" after the function under study
    hw,           \* what std::thread::hardware_concurrency() returned
    sem,          \* the counter of the semaphore sem
    dirFiles,     \* the entries of the builds directory (indices of FilePool)
    argv,         \* main: the command-line arguments after argv[0]
    stdin,        \* main: the lines not yet read from std::cin
    mainpc,       \* main: where it stands
    exit,         \* how the process ended, "none" while it runs
    useColors,    \* the global useColors
    folderPath,   \* main: folderPath
    pattern,      \* the compiled pattern handed to scanDirectory
    sdpc,         \* scanDirectory: where it stands
    buildFiles,   \* scanDirectory: buildFiles, in enumeration order
    spawned,      \* scanDirectory: how many futures were pushed
    joined,       \* scanDirectory: how many futures f.get() returned for
    upc,          \* per unit (future): where scanFileLimited stands
    ulocal,       \* per unit: the ResultLine scanFile is about to push
    outputMutex,  \* 0 when free, else the unit that holds it
    outputBuffer, \* scanDirectory: outputBuffer
    allFound,     \* scanDirectory: allFound
    scans         \* the scans completed so far: pattern, results as pushed and as
                  \* written, allFound

fvars == <<buffer, section, data, pat, matches, input, parsed, filename, build, fpc>>

pvars == <<hw, sem, dirFiles, argv, stdin, mainpc, exit, useColors, folderPath, pattern,
           sdpc, buildFiles, spawned, joined, upc, ulocal, outputMutex, outputBuffer,
           allFound, scans>>

vars == <<fvars, pvars>>

\* what no step of the program changes
envvars == <<hw, dirFiles, argv>>

\* the locals of main and the global it sets
mainvars == <<stdin, mainpc, useColors, folderPath, pattern>>

\* the locals of scanDirectory that only its own thread writes
dirvars == <<sdpc, buildFiles, spawned, joined, allFound, scans>>

----------------------------------------------------------------------------
(* Wide unsigned arithmetic.                                               *)

W16 == 65536

WOfNat(n) == <<n \div W16, n % W16>>

\* exact sum, as size_t (64-bit) arithmetic gives within the model's range
WAdd(a, b) == <<a[1] + b[1] + ((a[2] + b[2]) \div W16), (a[2] + b[2]) % W16>>

\* conversion to uint32_t: the value modulo 2^32
Trunc32(a) == <<a[1] % W16, a[2]>>

\* uint32_t + uint32_t (or + int constant): the sum modulo 2^32
Add32(a, b) == Trunc32(WAdd(a, b))

WLess(a, b) == a[1] < b[1] \/ (a[1] = b[1] /\ a[2] < b[2])

WLeq(a, b) == a = b \/ WLess(a, b)

----------------------------------------------------------------------------
(* Section locator: getTextSection.                                        *)

MinHeader == 4096          \* 0x1000

DosMagic == 23117          \* 0x5A4D, "MZ"

PeMagic == <<0, 17744>>    \* 0x00004550, "PE\0\0"

EntrySize == 40

TextName == <<46, 116, 101, 120, 116>>     \* ".text"

\* What a read outside the buffer does (undefined behaviour): the process
\* faults, or the read yields some byte of whatever lies there.
UBOutcomes == [fault : BOOLEAN, byte : {0, 255}]

InBuf(buf, idx) == idx[1] = 0 /\ idx[2] < Len(buf)

\* buffer[idx]
ByteAt(buf, idx, ub) == IF InBuf(buf, idx) THEN buf[idx[2] + 1] ELSE ub.byte

\* the indices an n-byte read at &buffer[idx] touches
Span(idx, n) == {WAdd(idx, <<0, k>>) : k \in 0 .. n - 1}

Faults(buf, reads) == \E idx \in reads : ~InBuf(buf, idx)

\* *reinterpret_cast<const uint16_t*>(&buffer[idx])
ReadU16(buf, idx, ub) ==
    <<0, ByteAt(buf, idx, ub) + 256 * ByteAt(buf, WAdd(idx, <<0, 1>>), ub)>>

\* *reinterpret_cast<const uint32_t*>(&buffer[idx])
ReadU32(buf, idx, ub) ==
    <<ByteAt(buf, WAdd(idx, <<0, 2>>), ub) + 256 * ByteAt(buf, WAdd(idx, <<0, 3>>), ub),
      ByteAt(buf, idx, ub) + 256 * ByteAt(buf, WAdd(idx, <<0, 1>>), ub)>>

Nullopt(reads) ==
    [kind |-> "nullopt", rawOffset |-> <<0, 0>>, rawSize |-> <<0, 0>>, reads |-> reads]

Faulted(reads) ==
    [kind |-> "fault", rawOffset |-> <<0, 0>>, rawSize |-> <<0, 0>>, reads |-> reads]

SectionInfo(rawOffset, rawSize, reads) ==
    [kind |-> "section", rawOffset |-> rawOffset, rawSize |-> rawSize, reads |-> reads]

\* std::strncmp(name, ".text", 5): the number of bytes it compares, which is
\* up to and including the first difference
RECURSIVE StrncmpLen(_, _, _, _)
StrncmpLen(buf, off, k, ub) ==
    IF k = Len(TextName) THEN k
    ELSE IF ByteAt(buf, WAdd(off, <<0, k>>), ub) # TextName[k + 1] THEN k + 1
    ELSE StrncmpLen(buf, off, k + 1, ub)

StrncmpEq(buf, off, ub) ==
    \A k \in 0 .. Len(TextName) - 1 : ByteAt(buf, WAdd(off, <<0, k>>), ub) = TextName[k + 1]

\* the guard of line 176: rawDataPtr + rawSize <= buffer.size(), the sum
\* taken in uint32_t
RawFits(buf, rawDataPtr, rawSize) ==
    WLeq(Add32(rawDataPtr, rawSize), WOfNat(Len(buf)))

\* the loop of lines 169-182
RECURSIVE SectionLoop(_, _, _, _, _, _)
SectionLoop(buf, i, numberOfSections, sectionTableOffset, reads, ub) ==
    IF ~(i < numberOfSections) THEN Nullopt(reads)
    ELSE IF WLess(WOfNat(Len(buf)), WAdd(sectionTableOffset, <<0, EntrySize>>))
    THEN Nullopt(reads)
    ELSE LET rName == reads \cup Span(sectionTableOffset,
                                      StrncmpLen(buf, sectionTableOffset, 0, ub))
             next == WAdd(sectionTableOffset, <<0, EntrySize>>)
         IN  IF ub.fault /\ Faults(buf, rName) THEN Faulted(rName)
             ELSE IF StrncmpEq(buf, sectionTableOffset, ub)
             THEN LET pPtr == WAdd(sectionTableOffset, <<0, 20>>)
                      pSize == WAdd(sectionTableOffset, <<0, 16>>)
                      rawDataPtr == ReadU32(buf, pPtr, ub)
                      rawSize == ReadU32(buf, pSize, ub)
                      rRaw == rName \cup Span(pPtr, 4) \cup Span(pSize, 4)
                  IN  IF ub.fault /\ Faults(buf, rRaw) THEN Faulted(rRaw)
                      ELSE IF RawFits(buf, rawDataPtr, rawSize)
                      THEN SectionInfo(rawDataPtr, rawSize, rRaw)
                      ELSE SectionLoop(buf, i + 1, numberOfSections, next, rRaw, ub)
             ELSE SectionLoop(buf, i + 1, numberOfSections, next, rName, ub)

\* the guard of line 160: peOffset + 0x18 >= buffer.size(), the sum taken in
\* uint32_t
PeOffsetRejected(buf, peOffset) ==
    ~WLess(Add32(peOffset, <<0, 24>>), WOfNat(Len(buf)))

GetTextSection(buf, ub) ==
    IF Len(buf) < MinHeader THEN Nullopt({})
    ELSE
    LET rDos == Span(<<0, 0>>, 2)
        dosSignature == ReadU16(buf, <<0, 0>>, ub)
    IN
    IF dosSignature # <<0, DosMagic>> THEN Nullopt(rDos)
    ELSE
    LET rOff == rDos \cup Span(<<0, 60>>, 4)
        peOffset == ReadU32(buf, <<0, 60>>, ub)
    IN
    IF PeOffsetRejected(buf, peOffset) THEN Nullopt(rOff)
    ELSE
    LET rSig == rOff \cup Span(peOffset, 4)
        peSignature == ReadU32(buf, peOffset, ub)
    IN
    IF ub.fault /\ Faults(buf, rSig) THEN Faulted(rSig)
    ELSE IF peSignature # PeMagic THEN Nullopt(rSig)
    ELSE
    LET pNum == Add32(peOffset, <<0, 6>>)
        pOpt == Add32(peOffset, <<0, 20>>)
        rNum == rSig \cup Span(pNum, 2)
        rOpt == rNum \cup Span(pOpt, 2)
        numberOfSections == ReadU16(buf, pNum, ub)
        sizeOfOptionalHeader == ReadU16(buf, pOpt, ub)
        sectionTableOffset == Add32(Add32(peOffset, <<0, 24>>), sizeOfOptionalHeader)
    IN
    IF ub.fault /\ Faults(buf, rNum) THEN Faulted(rNum)
    ELSE IF ub.fault /\ Faults(buf, rOpt) THEN Faulted(rOpt)
    ELSE SectionLoop(buf, 0, numberOfSections[2], sectionTableOffset, rOpt, ub)

----------------------------------------------------------------------------
(* Byte matcher: searchAllPatternOffsets.                                  *)

\* std::nullopt, the wildcard element; a fixed element is its byte 0..255
nullopt == -1

\* the inner loop of lines 73-78, from element j on
RECURSIVE MatchedAt(_, _, _, _)
MatchedAt(bytes, pat1, i, j) ==
    IF ~(j < Len(pat1)) THEN TRUE
    ELSE IF pat1[j + 1] # nullopt /\ bytes[i + j + 1] # pat1[j + 1] THEN FALSE
    ELSE MatchedAt(bytes, pat1, i, j + 1)

\* the outer loop with its bound off by one: i < size - pattern.size()
RECURSIVE ScanFromShort(_, _, _, _)
ScanFromShort(bytes, pat1, i, found) ==
    IF ~(i < Len(bytes) - Len(pat1)) THEN found
    ELSE ScanFromShort(bytes, pat1, i + 1,
                       IF MatchedAt(bytes, pat1, i, 0) THEN Append(found, i) ELSE found)

\* the outer loop of lines 71-80, from position i on
RECURSIVE ScanFrom(_, _, _, _)
ScanFrom(bytes, pat1, i, found) ==
    IF ~(i <= Len(bytes) - Len(pat1)) THEN found
    ELSE ScanFrom(bytes, pat1, i + 1,
                  IF MatchedAt(bytes, pat1, i, 0) THEN Append(found, i) ELSE found)

SearchAllPatternOffsets(bytes, pat1) ==
    IF Len(bytes) < Len(pat1) THEN <<>>
    ELSE ScanFrom(bytes, pat1, 0, <<>>)

----------------------------------------------------------------------------
(* Pattern compiler: parseBytePattern.                                     *)

\* std::isspace in the "C" locale (the vertical tab is left out: it cannot
\* be written as a TLA+ string)
IsSpace(c) == c \in {" ", "\t", "\n", "\r", "\f"}

\* operator>>(istream&, string&): the maximal runs of non-space characters
RECURSIVE Tokens(_, _, _)
Tokens(s, cur, acc) ==
    IF s = <<>> THEN (IF cur = <<>> THEN acc ELSE Append(acc, cur))
    ELSE IF IsSpace(Head(s))
    THEN Tokens(Tail(s), <<>>, IF cur = <<>> THEN acc ELSE Append(acc, cur))
    ELSE Tokens(Tail(s), Append(cur, Head(s)), acc)

HexDigitChars ==
    <<"0", "1", "2", "3", "4", "5", "6", "7", "8", "9",
      "a", "b", "c", "d", "e", "f", "A", "B", "C", "D", "E", "F">>

IsHexDigit(c) == \E k \in 1 .. Len(HexDigitChars) : HexDigitChars[k] = c

HexVal(c) ==
    LET k == CHOOSE n \in 1 .. Len(HexDigitChars) : HexDigitChars[n] = c
    IN  IF k <= 16 THEN k - 1 ELSE k - 7

\* the longest prefix of s made of hexadecimal digits
RECURSIVE HexPrefix(_)
HexPrefix(s) ==
    IF s = <<>> \/ ~IsHexDigit(Head(s)) THEN <<>>
    ELSE <<Head(s)>> \o HexPrefix(Tail(s))

RECURSIVE DropZeros(_)
DropZeros(s) == IF s # <<>> /\ Head(s) = "0" THEN DropZeros(Tail(s)) ELSE s

\* the value of a digit string modulo 256
RECURSIVE HexMod256(_, _)
HexMod256(s, v) == IF s = <<>> THEN v ELSE HexMod256(Tail(s), (v * 16 + HexVal(Head(s))) % 256)

\* the hexadecimal digits an unsigned long holds (LP64)
ULongHexDigits == 16

\* static_cast<uint8_t>(std::stoul(byteStr, nullptr, 16)): strtoul takes an
\* optional sign, an optional 0x/0X prefix and the longest run of hex digits,
\* ignoring what follows; stoul throws when there is no digit
\* (invalid_argument) or the value exceeds unsigned long (out_of_range).
\* thrown = TRUE stands for the exception.
Stoul16(byteStr) ==
    LET signed == byteStr # <<>> /\ Head(byteStr) \in {"+", "-"}
        negative == signed /\ Head(byteStr) = "-"
        s1 == IF signed THEN Tail(byteStr) ELSE byteStr
        prefixed == /\ Len(s1) >= 3
                    /\ s1[1] = "0"
                    /\ s1[2] \in {"x", "X"}
                    /\ IsHexDigit(s1[3])
        s2 == IF prefixed THEN Tail(Tail(s1)) ELSE s1
        digits == HexPrefix(s2)
        low == HexMod256(digits, 0)
    IN  IF digits = <<>> THEN [thrown |-> TRUE, byte |-> 0]
        ELSE IF Len(DropZeros(digits)) > ULongHexDigits THEN [thrown |-> TRUE, byte |-> 0]
        ELSE [thrown |-> FALSE, byte |-> IF negative THEN (256 - low) % 256 ELSE low]

\* the body of the loop of lines 44-62 for one token: what it appends
ParseToken(byteStr) ==
    IF byteStr = <<"?">> \/ byteStr = <<"?", "?">> THEN <<nullopt>>
    ELSE LET r == Stoul16(byteStr)
         IN  IF r.thrown THEN <<>> ELSE <<r.byte>>

RECURSIVE ParseTokens(_)
ParseTokens(toks) ==
    IF toks = <<>> THEN <<>> ELSE ParseToken(Head(toks)) \o ParseTokens(Tail(toks))

ParseBytePattern(text) == ParseTokens(Tokens(text, <<>>, <<>>))

----------------------------------------------------------------------------
(* File names: extractBuildNumber, extractGameName, the sort key.          *)

IsDigit(c) == c \in {"0", "1", "2", "3", "4", "5", "6", "7", "8", "9"}

DigitVal(c) == HexVal(c)

\* the search taking the rightmost four digits instead of the leftmost
RegexSearchLast(s, p) ==
    LET hits == {q \in p .. Len(s) - 3 : \A k \in 0 .. 3 : IsDigit(s[q + k])}
    IN  IF hits = {} THEN 0 ELSE CHOOSE q \in hits : \A r \in hits : r <= q

\* std::regex_search(filename, match, R"((\d{4}))"): the position of the
\* leftmost four consecutive digits at or after p, 0 when there is none
RECURSIVE RegexSearch(_, _)
RegexSearch(s, p) ==
    IF p + 3 > Len(s) THEN 0
    ELSE IF \A k \in 0 .. 3 : IsDigit(s[p + k]) THEN p
    ELSE RegexSearch(s, p + 1)

ExtractBuildNumber(name) ==
    LET p == RegexSearch(name, 1)
    IN  IF p = 0 THEN [has |-> FALSE, value |-> <<>>]
        ELSE [has |-> TRUE, value |-> SubSeq(name, p, p + 3)]

\* extractBuildNumber(filename).value_or(filename)
BuildOf(name) ==
    LET b == ExtractBuildNumber(name) IN IF b.has THEN b.value ELSE name

\* std::string::find_last_of(c): 1-based position, 0 for npos
FindLast(s, c) ==
    IF \E k \in 1 .. Len(s) : s[k] = c
    THEN CHOOSE k \in 1 .. Len(s) : s[k] = c /\ \A m \in k + 1 .. Len(s) : s[m] # c
    ELSE 0

\* std::string::find(c): 1-based position, 0 for npos
FindFirst(s, c) ==
    IF \E k \in 1 .. Len(s) : s[k] = c
    THEN CHOOSE k \in 1 .. Len(s) : s[k] = c /\ \A m \in 1 .. k - 1 : s[m] # c
    ELSE 0

Min(a, b) == IF a < b THEN a ELSE b

ExtractGameName(name) ==
    LET dot == FindLast(name, ".")
        nameOnly == IF dot = 0 THEN name ELSE SubSeq(name, 1, dot - 1)
        dashPos == FindFirst(nameOnly, "-")
        underscorePos == FindFirst(nameOnly, "_")
        sepPos == Min(IF dashPos = 0 THEN Len(nameOnly) ELSE dashPos - 1,
                      IF underscorePos = 0 THEN Len(nameOnly) ELSE underscorePos - 1)
    IN  SubSeq(nameOnly, 1, sepPos)

\* fs::path::extension() of a file name: from the last dot on, empty when
\* there is no dot, when the only dot leads the name, and for "." and ".."
Extension(name) ==
    LET dot == FindLast(name, ".")
    IN  IF dot <= 1 \/ name = <<".", ".">> THEN <<>>
        ELSE SubSeq(name, dot, Len(name))

RECURSIVE DropSpaces(_)
DropSpaces(s) == IF s # <<>> /\ (IsSpace(Head(s))) THEN DropSpaces(Tail(s)) ELSE s

RECURSIVE DigitPrefix(_)
DigitPrefix(s) ==
    IF s = <<>> \/ ~IsDigit(Head(s)) THEN <<>>
    ELSE <<Head(s)>> \o DigitPrefix(Tail(s))

RECURSIVE DecVal(_, _)
DecVal(s, v) == IF s = <<>> THEN v ELSE DecVal(Tail(s), v * 10 + DigitVal(Head(s)))

\* std::stoi(str): strtol in base 10 takes leading spaces, an optional sign
\* and the longest run of digits; stoi throws when there is no digit.
\* scanFile hands it either four digits or a name without four consecutive
\* digits, so the run has at most four digits and the value fits an int.
\* thrown = TRUE stands for the exception.
Stoi(str) ==
    LET s0 == DropSpaces(str)
        signed == s0 # <<>> /\ Head(s0) \in {"+", "-"}
        s1 == IF signed THEN Tail(s0) ELSE s0
        digits == DigitPrefix(s1)
    IN  IF digits = <<>> THEN [thrown |-> TRUE, value |-> 0]
        ELSE [thrown |-> FALSE,
              value |-> IF signed /\ Head(s0) = "-" THEN 0 - DecVal(digits, 0)
                        ELSE DecVal(digits, 0)]

\* the sort key of lines 230-235
BuildNum(buildStr) == LET r == Stoi(buildStr) IN IF r.thrown THEN 0 ELSE r.value

----------------------------------------------------------------------------
(* Report lines: the stream insertions of scanFile, lines 215-226.         *)

DecDigitChars == SubSeq(HexDigitChars, 1, 10)

UpperHexDigitChars == SubSeq(HexDigitChars, 1, 10) \o SubSeq(HexDigitChars, 17, 22)

\* operator<< of an unsigned value in base b with the digit characters given
RECURSIVE Format(_, _, _)
Format(n, b, chars) ==
    IF n < b THEN <<chars[n + 1]>>
    ELSE Format(n \div b, b, chars) \o <<chars[(n % b) + 1]>>

ESC == "\\033"

RED(colors) == IF colors THEN <<ESC>> \o <<"[", "3", "1", "m">> ELSE <<>>

GREEN(colors) == IF colors THEN <<ESC>> \o <<"[", "3", "2", "m">> ELSE <<>>

YELLOW(colors) == IF colors THEN <<ESC>> \o <<"[", "3", "3", "m">> ELSE <<>>

RESET(colors) == IF colors THEN <<ESC>> \o <<"[", "0", "m">> ELSE <<>>

\* the loop of lines 219-223
RECURSIVE OffsetList(_, _, _)
OffsetList(found, i, colors) ==
    IF ~(i < Len(found)) THEN <<>>
    ELSE YELLOW(colors) \o <<"0", "x">> \o Format(found[i + 1], 16, UpperHexDigitChars)
         \o RESET(colors)
         \o (IF i # Len(found) - 1 THEN <<",", " ">> ELSE <<>>)
         \o OffsetList(found, i + 1, colors)

FoundLine(gameName, buildStr, found, colors) ==
    GREEN(colors) \o <<"[", "+", "]">> \o RESET(colors)
    \o <<" ", "P", "a", "t", "t", "e", "r", "n", " ", "f", "o", "u", "n", "d", " ", "i", "n", " ">>
    \o gameName \o <<" ", "v">> \o YELLOW(colors) \o buildStr \o RESET(colors)
    \o <<" ", "(">> \o Format(Len(found), 10, DecDigitChars)
    \o <<" ", "m", "a", "t", "c", "h", "e", "s", ")", ":", " ">>
    \o OffsetList(found, 0, colors)

NotFoundLine(gameName, buildStr, colors) ==
    RED(colors) \o <<"[", "-", "]">> \o RESET(colors)
    \o <<" ", "P", "a", "t", "t", "e", "r", "n", " ", "n", "o", "t", " ", "f", "o", "u", "n", "d", " ", "i", "n", " ">>
    \o gameName \o <<" ", "v">> \o YELLOW(colors) \o buildStr \o RESET(colors)

RenderLine(name, found, colors) ==
    IF found # <<>>
    THEN FoundLine(ExtractGameName(name), BuildOf(name), found, colors)
    ELSE NotFoundLine(ExtractGameName(name), BuildOf(name), colors)

\* std::string::find(needle) != npos
Contains(s, needle) ==
    \E p \in 1 .. Len(s) - Len(needle) + 1 : SubSeq(s, p, p + Len(needle) - 1) = needle

NotFoundMark == <<"P", "a", "t", "t", "e", "r", "n", " ", "n", "o", "t", " ", "f", "o", "u", "n", "d">>

----------------------------------------------------------------------------
(* The functions on their own: each specification below draws the inputs   *)
(* of one function and applies it.                                         *)

NoSection == [kind |-> "none", rawOffset |-> <<0, 0>>, rawSize |-> <<0, 0>>, reads |-> {}]

\* the program at rest, while one function is studied on its own
ProgIdle ==
    /\ hw = 1 /\ sem = 1 /\ dirFiles = {}
    /\ argv = <<>> /\ stdin = <<>> /\ mainpc = "idle" /\ exit = "none"
    /\ useColors = TRUE /\ folderPath = <<>> /\ pattern = <<>>
    /\ sdpc = "idle" /\ buildFiles = <<>> /\ spawned = 0 /\ joined = 0
    /\ upc = <<>> /\ ulocal = <<>> /\ outputMutex = 0 /\ outputBuffer = <<>>
    /\ allFound = TRUE /\ scans = <<>>

FnIdle ==
    /\ buffer = <<>> /\ section = NoSection
    /\ data = <<>> /\ pat = <<>> /\ matches = <<>>
    /\ input = <<>> /\ parsed = <<>>
    /\ filename = <<>> /\ build = <<>>
    /\ fpc = "idle"

\* all sequences over S of length lo .. hi
SeqsOf(S, lo, hi) == UNION {[1 .. n -> S] : n \in lo .. hi}

(* --- searchAllPatternOffsets --- *)

MaxDataLen == 4

MaxPatLen == 3

MatchBytes == {72, 139}     \* 0x48, 0x8B

InitMatch ==
    /\ data \in SeqsOf(MatchBytes, 0, MaxDataLen)
    /\ pat \in SeqsOf(MatchBytes \cup {nullopt}, 1, MaxPatLen)
    /\ matches = <<>>
    /\ buffer = <<>> /\ section = NoSection
    /\ input = <<>> /\ parsed = <<>>
    /\ filename = <<>> /\ build = <<>>
    /\ fpc = "call"
    /\ ProgIdle

CallMatch ==
    /\ fpc = "call"
    /\ matches' = SearchAllPatternOffsets(data, pat)
    /\ fpc' = "return"
    /\ UNCHANGED <<buffer, section, data, pat, input, parsed, filename, build, pvars>>

(* --- parseBytePattern --- *)

MaxTextLen == 4

TextChars == {" ", "?", "4", "f", "F", "G", "x", "0", "-"}

InitParse ==
    /\ input \in SeqsOf(TextChars, 0, MaxTextLen)
    /\ parsed = <<>>
    /\ buffer = <<>> /\ section = NoSection
    /\ data = <<>> /\ pat = <<>> /\ matches = <<>>
    /\ filename = <<>> /\ build = <<>>
    /\ fpc = "call"
    /\ ProgIdle

CallParse ==
    /\ fpc = "call"
    /\ parsed' = ParseBytePattern(input)
    /\ fpc' = "return"
    /\ UNCHANGED <<buffer, section, data, pat, matches, input, filename, build, pvars>>

(* --- extractBuildNumber(filename).value_or(filename) --- *)

MaxStemLen == 6

StemChars == {"1", "9", "a", "_"}

EXE == <<".", "e", "x", "e">>

TEXT == <<".", "t", "e", "x", "t">>

InitBuild ==
    /\ \E stem \in SeqsOf(StemChars, 1, MaxStemLen), ext \in {EXE, TEXT} :
           filename = stem \o ext
    /\ build = <<>>
    /\ buffer = <<>> /\ section = NoSection
    /\ data = <<>> /\ pat = <<>> /\ matches = <<>>
    /\ input = <<>> /\ parsed = <<>>
    /\ fpc = "call"
    /\ ProgIdle

CallBuild ==
    /\ fpc = "call"
    /\ build' = BuildOf(filename)
    /\ fpc' = "return"
    /\ UNCHANGED <<buffer, section, data, pat, matches, input, parsed, filename, pvars>>

(* --- getTextSection --- *)

LE16(v) == <<v % 256, v \div 256>>

LE32(w) == LE16(w[2]) \o LE16(w[1])

Zeros(n) == [i \in 1 .. n |-> 0]

\* the patches laid out from offset pos on, zero between them; each patch is
\* [at |-> offset, bytes |-> sequence] and they come in ascending order
RECURSIVE Lay(_, _)
Lay(pos, patches) ==
    IF patches = <<>> THEN <<>>
    ELSE Zeros(Head(patches).at - pos) \o Head(patches).bytes
         \o Lay(Head(patches).at + Len(Head(patches).bytes), Tail(patches))

\* the file image of `size` bytes that is zero except for the patches, cut
\* at the end of the file
Image(size, patches) ==
    LET laid == Lay(0, patches)
    IN  IF Len(laid) >= size THEN SubSeq(laid, 1, size)
        ELSE laid \o Zeros(size - Len(laid))

\* a section-table entry: the name at +0, the raw size at +16, the raw data
\* pointer at +20
EntryPatches(at, name, rawDataPtr, rawSize) ==
    <<[at |-> at, bytes |-> name],
      [at |-> at + 16, bytes |-> LE32(rawSize)],
      [at |-> at + 20, bytes |-> LE32(rawDataPtr)]>>

DataName == <<46, 100, 97, 116, 97>>     \* ".data"

\* an executable image: the headers where e_lfanew points (when that is a
\* place in the model's range), then two section entries
PeImage(size, magic, lfanew, sig, nsec, optsz, name1, raw1) ==
    LET at == lfanew[2]
        table == at + 24 + optsz
        near == lfanew[1] = 0
    IN  Image(size,
              <<[at |-> 0, bytes |-> LE16(magic)], [at |-> 60, bytes |-> LE32(lfanew)]>>
              \o (IF near
                  THEN <<[at |-> at, bytes |-> LE32(sig)],
                         [at |-> at + 6, bytes |-> LE16(nsec)],
                         [at |-> at + 20, bytes |-> LE16(optsz)]>>
                       \o EntryPatches(table, name1, raw1[1], raw1[2])
                       \o EntryPatches(table + EntrySize, TextName, <<0, 1024>>, <<0, 512>>)
                  ELSE <<>>))

LocSizes == {0, 64, MinHeader - 1, MinHeader, MinHeader + 512}

LocOffsets == {<<0, 128>>, <<0, 4071>>, <<0, 4072>>, <<65535, 65520>>, <<65535, 65512>>}

LocCounts == {0, 1, 2, 65535}

LocOptSizes == {0, 240}

\* <<raw data pointer, raw size>> of the first entry
LocRaws == {<<<<0, 1024>>, <<0, 512>>>>, <<<<0, 4096>>, <<0, 0>>>>,
            <<<<0, 2048>>, <<0, 4096>>>>, <<<<65535, 61440>>, <<0, 8192>>>>}

InitLocate ==
    /\ \E size \in LocSizes, magic \in {DosMagic, 0}, lfanew \in LocOffsets,
          sig \in {PeMagic, <<0, 0>>}, nsec \in LocCounts, optsz \in LocOptSizes,
          name1 \in {TextName, DataName}, raw1 \in LocRaws :
           buffer = PeImage(size, magic, lfanew, sig, nsec, optsz, name1, raw1)
    /\ section = NoSection
    /\ data = <<>> /\ pat = <<>> /\ matches = <<>>
    /\ input = <<>> /\ parsed = <<>>
    /\ filename = <<>> /\ build = <<>>
    /\ fpc = "call"
    /\ ProgIdle

CallLocate ==
    /\ fpc = "call"
    /\ \E ub \in UBOutcomes : section' = GetTextSection(buffer, ub)
    /\ fpc' = "return"
    /\ UNCHANGED <<buffer, data, pat, matches, input, parsed, filename, build, pvars>>

----------------------------------------------------------------------------
(* The file system and the inputs of the program.                          *)

\* an executable whose 8-byte text section holds 48 8B at its start
ValidExe ==
    Image(MinHeader + 512,
          <<[at |-> 0, bytes |-> LE16(DosMagic)], [at |-> 60, bytes |-> LE32(<<0, 128>>)],
            [at |-> 128, bytes |-> LE32(PeMagic)], [at |-> 134, bytes |-> LE16(1)],
            [at |-> 148, bytes |-> LE16(240)]>>
          \o EntryPatches(392, TextName, <<0, 1024>>, <<0, 8>>)
          \o <<[at |-> 1024, bytes |-> <<72, 139>>]>>)

\* e_lfanew = 0xFFFFFFE8
WrappingExe ==
    Image(MinHeader,
          <<[at |-> 0, bytes |-> LE16(DosMagic)], [at |-> 60, bytes |-> LE32(<<65535, 65512>>)]>>)

\* the entries a builds directory may hold
FilePool ==
    <<[name |-> <<"a", "_", "1", "0", "0", "1", ".", "t", "e", "x", "t">>, regular |-> TRUE, readable |-> TRUE,
       bytes |-> <<72, 139, 72>>],
      [name |-> <<"b", "_", "1", "0", "0", "1", ".", "t", "e", "x", "t">>, regular |-> TRUE, readable |-> TRUE,
       bytes |-> <<0, 72>>],
      [name |-> <<"P", "a", "t", "t", "e", "r", "n", " ", "n", "o", "t", " ", "f", "o", "u", "n", "d", ".", "t", "e", "x", "t">>,
       regular |-> TRUE, readable |-> TRUE, bytes |-> <<72, 139>>],
      [name |-> <<"c", "_", "0", "9", "9", "8", ".", "e", "x", "e">>, regular |-> TRUE, readable |-> TRUE,
       bytes |-> <<77, 90, 144>>],
      [name |-> <<"d", "_", "0", "9", "9", "8", ".", "t", "e", "x", "t">>, regular |-> TRUE, readable |-> FALSE,
       bytes |-> <<>>],
      [name |-> <<"p", "_", "1", "0", "0", "2", ".", "e", "x", "e">>, regular |-> TRUE, readable |-> TRUE,
       bytes |-> ValidExe],
      [name |-> <<"q", ".", "e", "x", "e">>, regular |-> TRUE, readable |-> TRUE,
       bytes |-> WrappingExe],
      [name |-> <<"n", ".", "t", "x", "t">>, regular |-> TRUE, readable |-> TRUE,
       bytes |-> <<72, 139>>],
      [name |-> <<"s", ".", "t", "e", "x", "t">>, regular |-> FALSE, readable |-> FALSE,
       bytes |-> <<>>]>>

MaxFiles == 2

MaxHW == 2

MaxInputs == 2

Directories == {d \in SUBSET (1 .. Len(FilePool)) : Cardinality(d) <= MaxFiles}

DefaultPath == <<"B", "u", "i", "l", "d", "s", "/">>

DirPath == <<"d", "i", "r">>

MissingPath == <<"g", "o", "n", "e">>

NoColorFlag == <<"-", "-", "n", "o", "-", "c", "o", "l", "o", "r">>

ExtractFlag == <<"-", "-", "e", "x", "t", "r", "a", "c", "t", "-", "t", "e", "x", "t">>

GoodText == <<"4", "8", " ", "?", "?">>

BadText == <<"Z", "Z">>

\* fs::exists(p) && fs::is_directory(p): the file system holds one directory
FolderExists(path) == path = DirPath

\* readFile: the bytes, or an empty vector when the file cannot be opened or
\* read or is empty
ReadFile(f) == IF f.readable THEN f.bytes ELSE <<>>

----------------------------------------------------------------------------
(* scanFile, scanFileLimited, scanDirectory.                               *)

Units == 1 .. Len(buildFiles)

FileOf(u) == FilePool[buildFiles[u]]

\* lines 194-209: the text segment scanFile hands to the matcher. kind is
\* "skip" (empty buffer), "warn" (no section), "fault" or "bytes".
TextSegment(f, ub) ==
    LET buf == ReadFile(f)
        sec == GetTextSection(buf, ub)
        inside == WLeq(WAdd(sec.rawOffset, sec.rawSize), WOfNat(Len(buf)))
    IN  IF buf = <<>> THEN [kind |-> "skip", bytes |-> <<>>]
        ELSE IF Extension(f.name) = TEXT THEN [kind |-> "bytes", bytes |-> buf]
        ELSE IF sec.kind = "fault" THEN [kind |-> "fault", bytes |-> <<>>]
        ELSE IF sec.kind = "nullopt" THEN [kind |-> "warn", bytes |-> <<>>]
        ELSE IF ~inside /\ ub.fault THEN [kind |-> "fault", bytes |-> <<>>]
        ELSE [kind |-> "bytes",
              bytes |-> [k \in 1 .. sec.rawSize[2] |->
                            ByteAt(buf, WAdd(sec.rawOffset, <<0, k - 1>>), ub)]]

\* the text segment of each file of the pool under each outcome, tabulated
Segments ==
    {<<i, ub, TextSegment(FilePool[i], ub)>> : i \in 1 .. Len(FilePool), ub \in UBOutcomes}

SegmentOf(i, ub) == (CHOOSE t \in Segments : t[1] = i /\ t[2] = ub)[3]

\* lines 211-235: the ResultLine scanFile pushes
ResultLine(f, bytes, pat1, colors) ==
    LET found == SearchAllPatternOffsets(bytes, pat1)
    IN  [build |-> BuildNum(BuildOf(f.name)), line |-> RenderLine(f.name, found, colors)]

NoLine == [build |-> 0, line |-> <<>>]

\* an acquire that does not wait for a slot
AcquireNoWait(u) ==
    /\ u \in Units
    /\ exit = "none" /\ upc[u] = "acquire"
    /\ sem' = sem - 1
    /\ upc' = [upc EXCEPT ![u] = "scan"]
    /\ UNCHANGED <<ulocal, outputMutex, outputBuffer, exit>>
    /\ UNCHANGED <<envvars, mainvars, dirvars, fvars>>

\* sem.acquire()
Acquire(u) ==
    /\ u \in Units
    /\ exit = "none" /\ upc[u] = "acquire"
    /\ sem > 0
    /\ sem' = sem - 1
    /\ upc' = [upc EXCEPT ![u] = "scan"]
    /\ UNCHANGED <<ulocal, outputMutex, outputBuffer, exit>>
    /\ UNCHANGED <<envvars, mainvars, dirvars, fvars>>

\* scanFile up to its first lock: lines 190-226
ScanFile(u) ==
    /\ u \in Units
    /\ exit = "none" /\ upc[u] = "scan"
    /\ \E ub \in UBOutcomes :
          LET seg == SegmentOf(buildFiles[u], ub)
          IN  CASE seg.kind = "skip" ->
                     /\ upc' = [upc EXCEPT ![u] = "release"]
                     /\ UNCHANGED <<ulocal, exit>>
                [] seg.kind = "warn" ->
                     /\ upc' = [upc EXCEPT ![u] = "lockWarn"]
                     /\ UNCHANGED <<ulocal, exit>>
                [] seg.kind = "fault" ->
                     /\ exit' = "fault"
                     /\ UNCHANGED <<upc, ulocal>>
                [] seg.kind = "bytes" ->
                     /\ upc' = [upc EXCEPT ![u] = "lockPush"]
                     /\ ulocal' = [ulocal EXCEPT
                                     ![u] = ResultLine(FileOf(u), seg.bytes, pattern, useColors)]
                     /\ UNCHANGED exit
    /\ UNCHANGED <<sem, outputMutex, outputBuffer>>
    /\ UNCHANGED <<envvars, mainvars, dirvars, fvars>>

\* std::lock_guard lock(outputMutex), lines 203 and 229
Lock(u) ==
    /\ u \in Units
    /\ exit = "none" /\ upc[u] \in {"lockWarn", "lockPush"}
    /\ outputMutex = 0
    /\ outputMutex' = u
    /\ upc' = [upc EXCEPT ![u] = IF upc[u] = "lockWarn" THEN "warn" ELSE "push"]
    /\ UNCHANGED <<sem, ulocal, outputBuffer, exit>>
    /\ UNCHANGED <<envvars, mainvars, dirvars, fvars>>

\* lines 204-205: the warning on std::cerr, then the lock is released
Warn(u) ==
    /\ u \in Units
    /\ exit = "none" /\ upc[u] = "warn"
    /\ outputMutex' = 0
    /\ upc' = [upc EXCEPT ![u] = "release"]
    /\ UNCHANGED <<sem, ulocal, outputBuffer, exit>>
    /\ UNCHANGED <<envvars, mainvars, dirvars, fvars>>

\* lines 230-236: push_back, then the lock is released
Push(u) ==
    /\ u \in Units
    /\ exit = "none" /\ upc[u] = "push"
    /\ outputBuffer' = Append(outputBuffer, ulocal[u])
    /\ outputMutex' = 0
    /\ upc' = [upc EXCEPT ![u] = "release"]
    /\ UNCHANGED <<sem, ulocal, exit>>
    /\ UNCHANGED <<envvars, mainvars, dirvars, fvars>>

\* sem.release(), and the future becomes ready
Release(u) ==
    /\ u \in Units
    /\ exit = "none" /\ upc[u] = "release"
    /\ sem' = sem + 1
    /\ upc' = [upc EXCEPT ![u] = "done"]
    /\ UNCHANGED <<ulocal, outputMutex, outputBuffer, exit>>
    /\ UNCHANGED <<envvars, mainvars, dirvars, fvars>>

UnitStep(u) == Acquire(u) \/ ScanFile(u) \/ Lock(u) \/ Warn(u) \/ Push(u) \/ Release(u)

\* lines 254-262: the entries scanDirectory keeps
Candidates ==
    {i \in dirFiles :
        /\ FilePool[i].regular
        /\ Extension(FilePool[i].name) \in {EXE, TEXT}}

\* the injections of 1 .. n into S
Listings(S) ==
    {q \in [1 .. Cardinality(S) -> S] : \A a, b \in 1 .. Cardinality(S) : a # b => q[a] # q[b]}

\* the order in which fs::directory_iterator lists the entries. It is
\* unspecified; the model takes the order of FilePool. The units run
\* concurrently once spawned, so every order of completion stays reachable.
Listing(S) == CHOOSE q \in Listings(S) : \A a \in 1 .. Cardinality(S) - 1 : q[a] < q[a + 1]

\* lines 248-262. fs::directory_iterator throws on a path that is no
\* directory; nothing catches it and the process terminates.
Enumerate ==
    /\ exit = "none" /\ sdpc = "enumerate"
    /\ IF FolderExists(folderPath)
       THEN /\ buildFiles' = Listing(Candidates)
            /\ upc' = [u \in 1 .. Cardinality(Candidates) |-> "unspawned"]
            /\ ulocal' = [u \in 1 .. Cardinality(Candidates) |-> NoLine]
            /\ sdpc' = "spawn"
            /\ UNCHANGED exit
       ELSE /\ exit' = "terminate"
            /\ UNCHANGED <<buildFiles, upc, ulocal, sdpc>>
    /\ outputBuffer' = <<>>
    /\ outputMutex' = 0
    /\ spawned' = 0
    /\ joined' = 0
    /\ UNCHANGED <<sem, allFound, scans>>
    /\ UNCHANGED <<envvars, mainvars, fvars>>

\* lines 264-268: one std::async per file; the new thread may run at once
Spawn ==
    /\ exit = "none" /\ sdpc = "spawn"
    /\ IF spawned < Len(buildFiles)
       THEN /\ spawned' = spawned + 1
            /\ upc' = [upc EXCEPT ![spawned + 1] = "acquire"]
            /\ UNCHANGED sdpc
       ELSE /\ sdpc' = "join"
            /\ UNCHANGED <<spawned, upc>>
    /\ UNCHANGED <<sem, buildFiles, joined, ulocal, outputMutex, outputBuffer,
                   allFound, scans, exit>>
    /\ UNCHANGED <<envvars, mainvars, fvars>>

\* line 270: f.get() on the futures in order
Join ==
    /\ exit = "none" /\ sdpc = "join"
    /\ IF joined < Len(buildFiles)
       THEN /\ upc[joined + 1] = "done"
            /\ joined' = joined + 1
            /\ UNCHANGED sdpc
       ELSE /\ sdpc' = "report"
            /\ UNCHANGED joined
    /\ UNCHANGED <<sem, buildFiles, spawned, upc, ulocal, outputMutex, outputBuffer,
                   allFound, scans, exit>>
    /\ UNCHANGED <<envvars, mainvars, fvars>>

\* no sort at all: the results stay as pushed
Unsorted(buf) == {buf}

\* the results std::sort may leave: outputBuffer reordered so that the build
\* keys ascend; the order of equal keys is whatever the sort makes of it
Sorted(buf) ==
    {[i \in 1 .. Len(buf) |-> buf[q[i]]] : q \in
        {r \in Listings(1 .. Len(buf)) :
            \A a \in 1 .. Len(buf) - 1 : buf[r[a]].build <= buf[r[a + 1]].build}}

\* lines 280-285: allFound after the lines were written
AllFoundOf(buf) == \A i \in 1 .. Len(buf) : ~Contains(buf[i].line, NotFoundMark)

\* lines 272-293
Report ==
    /\ exit = "none" /\ sdpc = "report"
    /\ outputMutex = 0
    /\ \E sorted \in Sorted(outputBuffer) :
          /\ outputBuffer' = sorted
          /\ allFound' = AllFoundOf(sorted)
          /\ scans' = Append(scans, [pattern |-> pattern, pushed |-> outputBuffer,
                                     out |-> sorted, allFound |-> AllFoundOf(sorted)])
    /\ sdpc' = "done"
    /\ UNCHANGED <<sem, buildFiles, spawned, joined, upc, ulocal, outputMutex, exit>>
    /\ UNCHANGED <<envvars, mainvars, fvars>>

DirectoryStep == Enumerate \/ Spawn \/ Join \/ Report

----------------------------------------------------------------------------
(* main.                                                                   *)

\* lines 340-351: the loop over the arguments
RECURSIVE ArgLoop(_, _)
ArgLoop(args, st) ==
    IF args = <<>> THEN st
    ELSE LET arg == Head(args)
         IN  ArgLoop(Tail(args),
                 IF arg = NoColorFlag THEN [st EXCEPT !.useColors = FALSE]
                 ELSE IF arg = ExtractFlag THEN [st EXCEPT !.extractMode = TRUE]
                 ELSE IF st.folderPath = DefaultPath THEN [st EXCEPT !.folderPath = arg]
                 ELSE IF st.argPattern = <<>> THEN [st EXCEPT !.argPattern = arg]
                 ELSE st)

\* extractTextSections, lines 296-331, as far as the process is concerned:
\* it lists the directory and runs the locator on each .exe it could read.
\* The files it writes are read by no one before the process exits.
ExtractOutcomes(path) ==
    IF ~FolderExists(path) THEN {"terminate"}
    ELSE {"0"} \cup
         {"fault" : i \in {j \in dirFiles :
                             /\ FilePool[j].regular
                             /\ Extension(FilePool[j].name) = EXE
                             /\ ReadFile(FilePool[j]) # <<>>
                             /\ \E ub \in UBOutcomes :
                                   GetTextSection(ReadFile(FilePool[j]), ub).kind = "fault"}}

\* the call of scanDirectory(folderPath, pattern)
CallScan(compiled, from) ==
    /\ pattern' = compiled
    /\ sdpc' = "enumerate"
    /\ mainpc' = from

\* lines 335-375: main up to its first scan or prompt
MainStart ==
    /\ exit = "none" /\ mainpc = "start"
    /\ LET a == ArgLoop(argv, [useColors |-> TRUE, extractMode |-> FALSE,
                               folderPath |-> DefaultPath, argPattern |-> <<>>])
           compiled == ParseBytePattern(a.argPattern)
       IN  /\ useColors' = a.useColors
           /\ folderPath' = a.folderPath
           /\ IF a.extractMode
              THEN /\ exit' \in ExtractOutcomes(a.folderPath)
                   /\ UNCHANGED <<pattern, sdpc, mainpc>>
              ELSE IF a.argPattern # <<>>
              THEN IF compiled = <<>>
                   THEN exit' = "1" /\ UNCHANGED <<pattern, sdpc, mainpc>>
                   ELSE CallScan(compiled, "argscan") /\ UNCHANGED exit
              ELSE IF ~FolderExists(a.folderPath)
              THEN exit' = "1" /\ UNCHANGED <<pattern, sdpc, mainpc>>
              ELSE mainpc' = "prompt" /\ UNCHANGED <<pattern, sdpc, exit>>
    /\ UNCHANGED stdin
    /\ UNCHANGED <<envvars, buildFiles, spawned, joined, allFound, scans, sem, upc,
                   ulocal, outputMutex, outputBuffer, fvars>>

\* lines 379-391: one turn of the prompt; std::getline at the end of the
\* input leaves the line empty
Prompt ==
    /\ exit = "none" /\ mainpc = "prompt"
    /\ LET line == IF stdin = <<>> THEN <<>> ELSE Head(stdin)
           compiled == ParseBytePattern(line)
       IN  /\ stdin' = IF stdin = <<>> THEN <<>> ELSE Tail(stdin)
           /\ IF compiled = <<>>
              THEN exit' = "0" /\ UNCHANGED <<pattern, sdpc, mainpc>>
              ELSE CallScan(compiled, "loopscan") /\ UNCHANGED exit
    /\ UNCHANGED <<useColors, folderPath>>
    /\ UNCHANGED <<envvars, buildFiles, spawned, joined, allFound, scans, sem, upc,
                   ulocal, outputMutex, outputBuffer, fvars>>

\* a return that drops the result of the scan
ReturnLenient ==
    /\ exit = "none" /\ sdpc = "done" /\ mainpc \in {"argscan", "loopscan"}
    /\ sdpc' = "idle"
    /\ IF mainpc = "argscan"
       THEN exit' = "0" /\ UNCHANGED mainpc
       ELSE mainpc' = "prompt" /\ UNCHANGED exit
    /\ UNCHANGED <<stdin, useColors, folderPath, pattern>>
    /\ UNCHANGED <<envvars, buildFiles, spawned, joined, allFound, scans, sem, upc,
                   ulocal, outputMutex, outputBuffer, fvars>>

\* lines 368-369 and 391-392: scanDirectory returned
Return ==
    /\ exit = "none" /\ sdpc = "done" /\ mainpc \in {"argscan", "loopscan"}
    /\ sdpc' = "idle"
    /\ IF mainpc = "argscan"
       THEN exit' = (IF allFound THEN "0" ELSE "2") /\ UNCHANGED mainpc
       ELSE mainpc' = "prompt" /\ UNCHANGED exit
    /\ UNCHANGED <<stdin, useColors, folderPath, pattern>>
    /\ UNCHANGED <<envvars, buildFiles, spawned, joined, allFound, scans, sem, upc,
                   ulocal, outputMutex, outputBuffer, fvars>>

MainStep == MainStart \/ Prompt \/ Return

----------------------------------------------------------------------------
(* Specifications.                                                         *)

ScanIdle ==
    /\ buildFiles = <<>> /\ spawned = 0 /\ joined = 0
    /\ upc = <<>> /\ ulocal = <<>> /\ outputMutex = 0 /\ outputBuffer = <<>>
    /\ allFound = TRUE /\ scans = <<>>

\* the command lines with the input each reads
Runs ==
    {<<a, <<>>>> : a \in {<<>>, <<MissingPath>>, <<DirPath, GoodText>>,
                          <<NoColorFlag, DirPath, GoodText>>, <<DirPath, BadText>>,
                          <<MissingPath, GoodText>>, <<ExtractFlag, DirPath>>,
                          <<ExtractFlag>>}}
    \cup {<<<<DirPath>>, in>> : in \in SeqsOf({GoodText}, 0, MaxInputs) \cup {<<BadText>>}}

\* the process as main starts; sem was constructed with the hardware
\* concurrency
Init ==
    /\ hw \in 0 .. MaxHW
    /\ sem = hw
    /\ dirFiles \in Directories
    /\ \E r \in Runs : argv = r[1] /\ stdin = r[2]
    /\ mainpc = "start" /\ exit = "none"
    /\ useColors = TRUE /\ folderPath = DefaultPath /\ pattern = <<>>
    /\ sdpc = "idle"
    /\ ScanIdle
    /\ FnIdle

Next ==
    \/ MainStart \/ Prompt \/ Return
    \/ Enumerate \/ Spawn \/ Join \/ Report
    \/ \E u \in Units : Acquire(u)
    \/ \E u \in Units : ScanFile(u)
    \/ \E u \in Units : Lock(u)
    \/ \E u \in Units : Warn(u)
    \/ \E u \in Units : Push(u)
    \/ \E u \in Units : Release(u)

Spec == Init /\ [][Next]_vars

\* scanDirectory on its own: one call, on any directory and path
InitScan ==
    /\ hw \in 0 .. MaxHW
    /\ sem = hw
    /\ dirFiles \in Directories
    /\ argv = <<>> /\ stdin = <<>>
    /\ mainpc = "call" /\ exit = "none"
    /\ useColors \in BOOLEAN
    /\ folderPath \in {DirPath, MissingPath}
    /\ pattern = ParseBytePattern(GoodText)
    /\ sdpc = "enumerate"
    /\ ScanIdle
    /\ FnIdle

NextScan ==
    \/ Enumerate \/ Spawn \/ Join \/ Report
    \/ \E u \in Units : Acquire(u)
    \/ \E u \in Units : ScanFile(u)
    \/ \E u \in Units : Lock(u)
    \/ \E u \in Units : Warn(u)
    \/ \E u \in Units : Push(u)
    \/ \E u \in Units : Release(u)

SpecScan == InitScan /\ [][NextScan]_vars

\* every thread that can take a step eventually takes one
SpecLive ==
    /\ SpecScan
    /\ WF_vars(DirectoryStep)
    /\ \A u \in 1 .. MaxFiles : WF_vars(UnitStep(u))

SpecMatch == InitMatch /\ [][CallMatch]_vars

SpecParse == InitParse /\ [][CallParse]_vars

SpecBuild == InitBuild /\ [][CallBuild]_vars

SpecLocate == InitLocate /\ [][CallLocate]_vars

----------------------------------------------------------------------------
(* Properties of the functions.                                            *)

\* C1: every index getTextSection reads lies inside the buffer, and the
\* call never faults: a buffer that would need a read outside yields nullopt.
C1_ReadsInBounds ==
    fpc = "return" =>
        /\ \A idx \in section.reads : InBuf(buffer, idx)
        /\ section.kind # "fault"

\* C2: a section that getTextSection returns lies inside the buffer:
\* rawOffset + rawSize, as a true sum, is at most the buffer length.
C2_SectionInBounds ==
    (fpc = "return" /\ section.kind = "section") =>
        WLeq(WAdd(section.rawOffset, section.rawSize), WOfNat(Len(buffer)))

\* the positions at which pattern p matches the bytes b
MatchPositions(b, p) ==
    {i \in 0 .. Len(b) - Len(p) :
        \A j \in 0 .. Len(p) - 1 : p[j + 1] = nullopt \/ b[i + j + 1] = p[j + 1]}

\* C3: searchAllPatternOffsets returns exactly the matching positions, in
\* strictly ascending order, and nothing when the pattern is longer than
\* the bytes.
C3_ExactMatches ==
    fpc = "return" =>
        /\ {matches[k] : k \in 1 .. Len(matches)} = MatchPositions(data, pat)
        /\ \A k \in 1 .. Len(matches) - 1 : matches[k] < matches[k + 1]
        /\ Len(pat) > Len(data) => matches = <<>>

\* a call that found several positions through a wildcard and a fixed byte
C3_Witness ==
    /\ fpc = "return"
    /\ Len(matches) >= 2
    /\ \E j \in 1 .. Len(pat) : pat[j] = nullopt
    /\ \E j \in 1 .. Len(pat) : pat[j] # nullopt
    /\ Len(matches) < Len(data) - Len(pat) + 1

\* the element the pattern text format gives a token: a wildcard for ? and
\* ??, a fixed byte for one or two hexadecimal digits, nothing otherwise
FormatToken(tok) ==
    IF tok = <<"?">> \/ tok = <<"?", "?">> THEN <<nullopt>>
    ELSE IF Len(tok) \in {1, 2} /\ \A k \in 1 .. Len(tok) : IsHexDigit(tok[k])
    THEN <<IF Len(tok) = 1 THEN HexVal(tok[1]) ELSE 16 * HexVal(tok[1]) + HexVal(tok[2])>>
    ELSE <<>>

RECURSIVE FormatTokens(_)
FormatTokens(toks) ==
    IF toks = <<>> THEN <<>> ELSE FormatToken(Head(toks)) \o FormatTokens(Tail(toks))

\* C9: parseBytePattern yields, token by token, a wildcard for ? and ??, a
\* fixed byte for a token of one or two hex digits, and nothing for any
\* other token.
C9_TokenMap ==
    fpc = "return" => parsed = FormatTokens(Tokens(input, <<>>, <<>>))

FourDigitsAt(s, p) == p >= 1 /\ p + 3 <= Len(s) /\ \A k \in 0 .. 3 : IsDigit(s[p + k])

\* the name ends in a run of exactly four digits
TrailingFour(s) ==
    /\ FourDigitsAt(s, Len(s) - 3)
    /\ Len(s) = 4 \/ ~IsDigit(s[Len(s) - 4])

----------------------------------------------------------------------------
(* Properties of the orchestrator and of main.                             *)

\* the units between sem.acquire() and sem.release()
Admitted == {u \in Units : upc[u] \in {"scan", "lockWarn", "warn", "lockPush", "push", "release"}}

\* C4: the units running scanFile never outnumber the hardware concurrency;
\* a unit that finds no free slot stays blocked, and a unit is admitted only
\* by taking a free slot.
C4_GateBound ==
    /\ [](Cardinality(Admitted) <= hw /\ sem = hw - Cardinality(Admitted))
    /\ [][\A u \in Units :
            /\ (upc[u] = "acquire" /\ sem = 0) => upc'[u] = "acquire"
            /\ (upc[u] = "acquire" /\ upc'[u] # "acquire") => (sem > 0 /\ sem' = sem - 1)]_vars

\* every slot is taken and another unit waits for one
C4_Witness ==
    /\ hw >= 1
    /\ Cardinality(Admitted) = hw
    /\ \E u \in Units : upc[u] = "acquire" /\ sem = 0

\* C5: a scan of an existing directory runs to completion (or the process
\* dies of the locator's fault, C1): scanDirectory passes the join and
\* writes its report.
C5_Completes ==
    FolderExists(folderPath) => <>(sdpc = "done" \/ exit = "fault")

\* the units whose file was read and whose section was located
Reported == {u \in Units : ulocal[u] # NoLine}

\* the pattern pat1 matches in file f, which was read and located
HasMatch(f, pat1) ==
    \E ub \in UBOutcomes :
        LET seg == TextSegment(f, ub)
        IN  seg.kind = "bytes" /\ SearchAllPatternOffsets(seg.bytes, pat1) # <<>>

\* file f was read and located and pat1 matches nowhere in it
FailsToMatch(f, pat1) ==
    \E ub \in UBOutcomes :
        LET seg == TextSegment(f, ub)
        IN  seg.kind = "bytes" /\ SearchAllPatternOffsets(seg.bytes, pat1) = <<>>

\* C7: scanDirectory returns allFound = TRUE exactly when every file that
\* was read and located has a match; the skipped files add no line.
C7_AllMatchedIff ==
    sdpc = "done" =>
        /\ Len(outputBuffer) = Cardinality(Reported)
        /\ allFound <=> \A u \in Reported : HasMatch(FileOf(u), pattern)

LinesOf(out) == [i \in 1 .. Len(out) |-> out[i].line]

\* insertion sort by key, which keeps results of equal key in the order in
\* which they were pushed
RECURSIVE InsertionSort(_)
InsertionSort(buf) ==
    IF buf = <<>> THEN <<>>
    ELSE LET front == InsertionSort(SubSeq(buf, 1, Len(buf) - 1))
             last == buf[Len(buf)]
             k == Cardinality({a \in 1 .. Len(front) : front[a].build <= last.build})
         IN  SubSeq(front, 1, k) \o <<last>> \o SubSeq(front, k + 1, Len(front))

KeptOrder(scan) == scan.out = InsertionSort(scan.pushed)

Count(out, r) == Cardinality({i \in 1 .. Len(out) : out[i] = r})

DistinctKeys(out) == \A a, b \in 1 .. Len(out) : a # b => out[a].build # out[b].build

Args ==
    ArgLoop(argv, [useColors |-> TRUE, extractMode |-> FALSE,
                   folderPath |-> DefaultPath, argPattern |-> <<>>])

\* a scan with pattern pat1 meets a file that fails to match
SomeFileFails(pat1) == \E i \in Candidates : FailsToMatch(FilePool[i], pat1)

====
